---- MODULE Spec2Model ----
(***************************************************************************)
(* Model of boofuzz/socket_connection.py: class SocketConnection.          *)
(*                                                                         *)
(* One connection object (`conn`) is driven through __init__, open, send,  *)
(* recv and close.  Further constructor calls (other instances) are        *)
(* modelled by ConstructAnother: instances share nothing but the           *)
(* class-level table MAX_PAYLOADS, which every constructor call writes.    *)
(* The operating system is the environment: the outcome of every socket    *)
(* call is chosen nondeterministically.                                    *)
(***************************************************************************)
EXTENDS Integers, Sequences, FiniteSets, TLC

(***************************************************************************)
(* Bounds of the model.                                                    *)
(***************************************************************************)
\* open() is called at most MaxOpens times on the connection
MaxOpens == 2
\* payloads longer than a payload ceiling exceed it by MaxOver bytes
MaxOver == 1
\* largest value helpers.get_max_udp_size() reports (platform dependent)
MaxUdpSize == 1600
\* largest max_bytes argument given to recv()
MaxRecvBytes == 4

(***************************************************************************)
(* Python values.                                                          *)
(***************************************************************************)
\* port=None (the default): a value no port number equals
None == -1
ETH_P_IP == 2048
\* l2_dst default: '\xFF' * 6
L2_BROADCAST == <<255, 255, 255, 255, 255, 255>>
DEFAULT_TIMEOUT == 5

\* A str is a sequence of one-character strings.
UPPER == <<"A","B","C","D","E","F","G","H","I","J","K","L","M",
           "N","O","P","Q","R","S","T","U","V","W","X","Y","Z">>
LOWER == <<"a","b","c","d","e","f","g","h","i","j","k","l","m",
           "n","o","p","q","r","s","t","u","v","w","x","y","z">>

\* str.lower() on one character: A-Z map to a-z, everything else is kept
LowerChar(c) ==
    IF \E i \in 1..26 : UPPER[i] = c
    THEN LOWER[CHOOSE i \in 1..26 : UPPER[i] = c]
    ELSE c

\* a buggy lower(): only the first character is converted
LowerFirstOnly(s) == [i \in 1..Len(s) |-> IF i = 1 THEN LowerChar(s[i]) ELSE s[i]]

\* proto.lower()
Lower(s) == [i \in 1..Len(s) |-> LowerChar(s[i])]

tcp == <<"t","c","p">>
ssl == <<"s","s","l">>
udp == <<"u","d","p">>
raw_l2 == <<"r","a","w","-","l","2">>
raw_l3 == <<"r","a","w","-","l","3">>

_PROTOCOLS == {tcp, ssl, udp, raw_l2, raw_l3}

\* a buggy list: udp is forgotten
PortRequiredWithoutUdp == {tcp, ssl}

_PROTOCOLS_PORT_REQUIRED == {tcp, ssl, udp}

Min(a, b) == IF a <= b THEN a ELSE b
Max(a, b) == IF a >= b THEN a ELSE b

\* Python slice data[:n]
Slice(data, n) ==
    IF n >= 0 THEN SubSeq(data, 1, Min(n, Len(data)))
    ELSE SubSeq(data, 1, Max(0, Len(data) + n))

(***************************************************************************)
(* Exceptions: the class raised, the message tag for SullyRuntimeError,    *)
(* the errno of a socket.error.                                            *)
(***************************************************************************)
Exc(type, msg, errno) == [type |-> type, msg |-> msg, errno |-> errno]
NoExc == Exc("none", "", "")
InvalidProtocol == Exc("SullyRuntimeError", "INVALID PROTOCOL SPECIFIED", "")
PortRequired == Exc("ValueError", "argument port required", "")
UdpRecvNeedsBind == Exc("SullyRuntimeError", "recv() for UDP requires a bind address/port", "")
ConnectionFailed == Exc("BoofuzzTargetConnectionFailedError", "", "")
AttributeError == Exc("AttributeError", "NoneType", "")
SocketError(errno) == Exc("socket.error", "", errno)
SocketTimeout == Exc("socket.timeout", "", "")
SSLError == Exc("ssl.SSLError", "", "")

(***************************************************************************)
(* Inputs.                                                                 *)
(***************************************************************************)
ProtoStrings ==
    { tcp, <<"T","C","P">>, ssl, udp, <<"U","d","P">>, raw_l2, raw_l3,
      <<"R","A","W","-","L","3">>, <<"t","l","s">>, <<"T","L","S">>, <<>> }
Ports == {None, 17971}
HOST == "10.0.0.1"
BIND == <<"127.0.0.1", 9999>>
\* bind=None is the empty (false) value; a bind pair is given with udp
CtorArgs ==
    { [proto |-> p, port |-> q, bind |-> <<>>] : p \in ProtoStrings, q \in Ports }
    \cup { [proto |-> p, port |-> q, bind |-> BIND] : p \in {udp, <<"U","d","P">>}, q \in Ports }
\* constructor calls for other instances: one that succeeds, one without its
\* port, one with an unknown protocol
OtherCtorArgs ==
    { [proto |-> udp, port |-> 17971, bind |-> <<>>],
      [proto |-> <<"T","C","P">>, port |-> None, bind |-> <<>>],
      [proto |-> <<"t","l","s">>, port |-> 17971, bind |-> <<>>] }
\* values helpers.get_max_udp_size() may report
UdpSizes == {MaxUdpSize - 128, MaxUdpSize}
\* payload of a given length: byte i is i mod 256
Payload(n) == [i \in 1..n |-> i % 256]
PayloadLens == {4} \cup { c + d : c \in {1500, 1514} \cup UdpSizes, d \in {0, MaxOver} }
\* data waiting at the socket when recv() reads: nothing, "pong", a longer message
Pending == { <<>>, <<112, 111, 110, 103>>, Payload(MaxRecvBytes + 1) }
RecvSizes == {1, MaxRecvBytes}
SENDER == <<"10.0.0.1", 17971>>

(***************************************************************************)
(* State.                                                                  *)
(***************************************************************************)
VARIABLES
    MAX_PAYLOADS,   \* the class attribute: one table shared by every instance
    conn,           \* the connection object: its attributes, or NoConn before __init__
    ownUdpMax,      \* history: get_max_udp_size() as seen by conn's own __init__
    created,        \* history: number of socket handles open() has created for conn
    live,           \* history: handles created for conn and not yet closed
    reopened,       \* history: open() was called while an earlier handle was not closed
    last            \* the call that has just returned or raised: its arguments, the OS
                    \* calls it made, its outcome; NoCall once the caller has taken it

vars == <<MAX_PAYLOADS, conn, ownUdpMax, created, live, reopened, last>>

\* self._sock = None
NoSock == [id |-> 0, tls |-> FALSE]

NoConn ==
    [exists |-> FALSE, host |-> HOST, port |-> None, bind |-> <<>>,
     timeout |-> DEFAULT_TIMEOUT, proto |-> <<>>, ethernet_proto |-> ETH_P_IP,
     l2_dst |-> L2_BROADCAST, _sock |-> NoSock]

NoCall ==
    [op |-> "none", self |-> "none", proto |-> <<>>, port |-> None, bind |-> <<>>,
     data |-> <<>>, max_bytes |-> 0, obj |-> NoConn, calls |-> <<>>,
     ret_data |-> <<>>, ret_num |-> 0, exc |-> NoExc]

\* one call on the socket module or on a socket object
OsCall(fn, h, data, addr, res) ==
    [fn |-> fn, h |-> h, data |-> data, addr |-> addr, res |-> res]

(***************************************************************************)
(* __init__                                                                *)
(***************************************************************************)
\* The attributes __init__ stores and the exception it raises (lines 71-85).
\* A constructor that raises yields no object.
__init__(host, port, proto, bind) ==
    LET obj == [exists |-> TRUE, host |-> host, port |-> port, bind |-> bind,
                timeout |-> DEFAULT_TIMEOUT, proto |-> Lower(proto),
                ethernet_proto |-> ETH_P_IP, l2_dst |-> L2_BROADCAST, _sock |-> NoSock]
    IN  IF obj.proto \notin _PROTOCOLS
        THEN [obj |-> NoConn, exc |-> InvalidProtocol]
        ELSE IF obj.proto \in _PROTOCOLS_PORT_REQUIRED /\ obj.port = None
        THEN [obj |-> NoConn, exc |-> PortRequired]
        ELSE [obj |-> obj, exc |-> NoExc]

\* line 69: self.MAX_PAYLOADS["udp"] = helpers.get_max_udp_size()
\* self.MAX_PAYLOADS is the class attribute: the assignment writes the shared table
SetUdpMax(table, size) == [table EXCEPT ![udp] = size]

\* SocketConnection(host, port, proto, bind) for the connection under study
Construct ==
    /\ last = NoCall
    /\ ~conn.exists
    /\ \E a \in CtorArgs, size \in UdpSizes :
         LET r == __init__(HOST, a.port, a.proto, a.bind) IN
         /\ MAX_PAYLOADS' = SetUdpMax(MAX_PAYLOADS, size)
         /\ conn' = r.obj
         /\ ownUdpMax' = IF r.obj.exists THEN size ELSE ownUdpMax
         /\ last' = [NoCall EXCEPT !.op = "__init__", !.self = "conn", !.proto = a.proto,
                                   !.port = a.port, !.bind = a.bind, !.obj = r.obj,
                                   !.exc = r.exc]
    /\ UNCHANGED <<created, live, reopened>>

\* SocketConnection(host, port, proto, bind) for any other instance
ConstructAnother ==
    /\ last = NoCall
    /\ \E a \in OtherCtorArgs, size \in UdpSizes :
         LET r == __init__(HOST, a.port, a.proto, a.bind) IN
         /\ MAX_PAYLOADS' = SetUdpMax(MAX_PAYLOADS, size)
         /\ last' = [NoCall EXCEPT !.op = "__init__", !.self = "other", !.proto = a.proto,
                                   !.port = a.port, !.bind = a.bind, !.obj = r.obj,
                                   !.exc = r.exc]
    /\ UNCHANGED <<conn, ownUdpMax, created, live, reopened>>

(***************************************************************************)
(* open                                                                    *)
(***************************************************************************)
\* what the OS may answer to the calls open() makes
OpenEnvs ==
    [socket : {"ok", "EMFILE"}, bind : {"ok", "EADDRINUSE"},
     connect : {"ok", "ECONNREFUSED", "EHOSTUNREACH", "timeout"},
     wrap_socket : {"ok", "SSLError"}]

\* the exception a failed _sock.connect() raises: socket.timeout is a socket.error
\* without errno
ConnectRaised(res) == IF res = "timeout" THEN SocketTimeout ELSE SocketError(res)

\* a buggy handler: every connect error is reported as a refused connection
ConnectAlwaysRefused(e) == ConnectionFailed

\* lines 121-125: except socket.error as e
ConnectHandler(e) == IF e.errno = "ECONNREFUSED" THEN ConnectionFailed ELSE e

\* lines 102-113: the socket family and type per protocol
SocketKind(proto) ==
    CASE proto \in {tcp, ssl} -> <<"AF_INET", "SOCK_STREAM">>
      [] proto = udp          -> <<"AF_INET", "SOCK_DGRAM">>
      [] proto = raw_l2       -> <<"AF_PACKET", "SOCK_RAW">>
      [] proto = raw_l3       -> <<"AF_PACKET", "SOCK_DGRAM">>
      [] OTHER                -> <<>>

\* line 118: connect is needed only for TCP protocols
Connects(proto) == proto = tcp \/ proto = ssl

\* a buggy open(): the TLS upgrade is applied to every connected socket
ConnectAndWrapAlways(self, h, env) ==
    LET plain == [id |-> h, tls |-> FALSE]
        connect == OsCall("connect", h, <<>>, <<self.host, self.port>>, env.connect)
        wrap == OsCall("wrap_socket", h, <<>>, <<>>, env.wrap_socket)
    IN  IF ~Connects(self.proto)
        THEN [sock |-> plain, calls |-> <<>>, exc |-> NoExc]
        ELSE IF env.connect # "ok"
        THEN [sock |-> plain, calls |-> <<connect>>,
              exc |-> ConnectHandler(ConnectRaised(env.connect))]
        ELSE IF env.wrap_socket # "ok"
        THEN [sock |-> plain, calls |-> <<connect, wrap>>, exc |-> SSLError]
        ELSE [sock |-> [id |-> h, tls |-> TRUE], calls |-> <<connect, wrap>>, exc |-> NoExc]

\* lines 117-130 on the new handle h: connect, then the TLS upgrade
ConnectAndWrap(self, h, env) ==
    LET plain == [id |-> h, tls |-> FALSE]
        connect == OsCall("connect", h, <<>>, <<self.host, self.port>>, env.connect)
        wrap == OsCall("wrap_socket", h, <<>>, <<>>, env.wrap_socket)
    IN  IF ~Connects(self.proto)
        THEN [sock |-> plain, calls |-> <<>>, exc |-> NoExc]
        ELSE IF env.connect # "ok"
        THEN [sock |-> plain, calls |-> <<connect>>,
              exc |-> ConnectHandler(ConnectRaised(env.connect))]
        ELSE IF self.proto # ssl
        THEN [sock |-> plain, calls |-> <<connect>>, exc |-> NoExc]
        ELSE IF env.wrap_socket # "ok"
        THEN [sock |-> plain, calls |-> <<connect, wrap>>, exc |-> SSLError]
        ELSE [sock |-> [id |-> h, tls |-> TRUE], calls |-> <<connect, wrap>>, exc |-> NoExc]

\* open() with h the next handle of the OS: the value of self._sock afterwards,
\* whether a handle was created, the OS calls made and the exception raised
open(self, h, env) ==
    LET create == OsCall("socket", h, <<>>, SocketKind(self.proto), env.socket)
        bind == OsCall("bind", h, <<>>, self.bind, env.bind)
        settimeout == OsCall("settimeout", h, <<>>, <<self.timeout>>, "ok")
        binds == self.proto = udp /\ self.bind # <<>>
        plain == [id |-> h, tls |-> FALSE]
        rest == ConnectAndWrap(self, h, env)
    IN  IF self.proto \notin {tcp, ssl, udp, raw_l2, raw_l3}
        THEN [sock |-> self._sock, made |-> FALSE, calls |-> <<>>, exc |-> InvalidProtocol]
        ELSE IF env.socket # "ok"
        THEN [sock |-> self._sock, made |-> FALSE, calls |-> <<create>>,
              exc |-> SocketError(env.socket)]
        ELSE IF binds /\ env.bind # "ok"
        THEN [sock |-> plain, made |-> TRUE, calls |-> <<create, bind>>,
              exc |-> SocketError(env.bind)]
        ELSE [sock |-> rest.sock, made |-> TRUE,
              calls |-> <<create>> \o (IF binds THEN <<bind>> ELSE <<>>)
                         \o <<settimeout>> \o rest.calls,
              exc |-> rest.exc]

Open ==
    /\ last = NoCall
    /\ conn.exists
    /\ created < MaxOpens
    /\ \E env \in OpenEnvs :
         LET r == open(conn, created + 1, env) IN
         /\ conn' = [conn EXCEPT !._sock = r.sock]
         /\ created' = IF r.made THEN created + 1 ELSE created
         /\ live' = IF r.made THEN live \cup {created + 1} ELSE live
         /\ reopened' = (reopened \/ live # {})
         /\ last' = [NoCall EXCEPT !.op = "open", !.self = "conn", !.calls = r.calls,
                                   !.exc = r.exc]
    /\ UNCHANGED <<MAX_PAYLOADS, ownUdpMax>>

(***************************************************************************)
(* close                                                                   *)
(***************************************************************************)
\* a buggy close(): the handle is forgotten, not closed
closeNothing(self) ==
    IF self._sock = NoSock
    THEN [closed |-> {}, calls |-> <<>>, exc |-> AttributeError]
    ELSE [closed |-> {}, calls |-> <<>>, exc |-> NoExc]

\* line 93: self._sock.close()
close(self) ==
    IF self._sock = NoSock
    THEN [closed |-> {}, calls |-> <<>>, exc |-> AttributeError]
    ELSE [closed |-> {self._sock.id},
          calls |-> <<OsCall("close", self._sock.id, <<>>, <<>>, "ok")>>, exc |-> NoExc]

Close ==
    /\ last = NoCall
    /\ conn.exists
    /\ LET r == close(conn) IN
         /\ live' = live \ r.closed
         /\ last' = [NoCall EXCEPT !.op = "close", !.self = "conn", !.calls = r.calls,
                                   !.exc = r.exc]
    /\ UNCHANGED <<MAX_PAYLOADS, conn, ownUdpMax, created, reopened>>

(***************************************************************************)
(* send                                                                    *)
(***************************************************************************)
\* a buggy truncation: one byte too many is kept
TruncateOffByOne(table, proto, data) ==
    IF proto \in DOMAIN table THEN Slice(data, table[proto] + 1) ELSE data

\* lines 181-184: data[:self.MAX_PAYLOADS[self.proto]], KeyError: data unchanged
Truncate(table, proto, data) ==
    IF proto \in DOMAIN table THEN Slice(data, table[proto]) ELSE data

\* lines 186-201: the socket method and the address tuple per protocol
SendTarget(self) ==
    CASE self.proto \in {tcp, ssl} -> [fn |-> "send", addr |-> <<>>]
      [] self.proto = udp          -> [fn |-> "sendto", addr |-> <<self.host, self.port>>]
      [] self.proto = raw_l2       -> [fn |-> "sendto", addr |-> <<self.host, 0>>]
      [] self.proto = raw_l3       -> [fn |-> "sendto",
                                       addr |-> <<self.host, self.ethernet_proto, 0, 0,
                                                  self.l2_dst>>]
      [] OTHER                     -> [fn |-> "raise", addr |-> <<>>]

\* what the OS may answer to a write of n bytes on handle h: all bytes taken, a
\* stream taking fewer, an error; a closed handle is a bad descriptor
SendEnvs(self, h, n) ==
    IF h \notin live THEN {"EBADF"}
    ELSE {"ok", "EPIPE"} \cup (IF self.proto \in {tcp, ssl} /\ n > 0 THEN {"short"} ELSE {})

\* send(data): the OS calls made, the number returned, the exception raised
send(self, table, data, res) ==
    LET d == Truncate(table, self.proto, data)
        t == SendTarget(self)
    IN  IF t.fn = "raise"
        THEN [calls |-> <<>>, ret_num |-> 0, exc |-> InvalidProtocol]
        ELSE IF self._sock = NoSock
        THEN [calls |-> <<>>, ret_num |-> 0, exc |-> AttributeError]
        ELSE [calls |-> <<OsCall(t.fn, self._sock.id, d, t.addr, res)>>,
              ret_num |-> CASE res = "ok" -> Len(d) [] res = "short" -> Len(d) - 1
                            [] OTHER -> 0,
              exc |-> IF res \in {"ok", "short"} THEN NoExc ELSE SocketError(res)]

Send ==
    /\ last = NoCall
    /\ conn.exists
    /\ \E n \in PayloadLens :
         LET data == Payload(n)
             d == Truncate(MAX_PAYLOADS, conn.proto, data) IN
         \E res \in SendEnvs(conn, conn._sock.id, Len(d)) :
             LET r == send(conn, MAX_PAYLOADS, data, res) IN
             last' = [NoCall EXCEPT !.op = "send", !.self = "conn", !.data = data,
                                    !.calls = r.calls, !.ret_num = r.ret_num,
                                    !.exc = r.exc]
    /\ UNCHANGED <<MAX_PAYLOADS, conn, ownUdpMax, created, live, reopened>>

(***************************************************************************)
(* recv                                                                    *)
(***************************************************************************)
\* what the OS may answer to a read on handle h
RecvEnvs(h) ==
    IF h \notin live THEN {"EBADF"}
    ELSE {"ok", "timeout", "ECONNABORTED", "ECONNREFUSED", "ECONNRESET", "ENETRESET",
          "ETIMEDOUT", "EINTR", "ENOTCONN"}

\* a buggy handler: a reset connection is not recognised
RecvHandlerNoReset(e) ==
    IF e.type = "socket.timeout" THEN NoExc
    ELSE IF e.type = "socket.error"
         /\ e.errno \in {"ECONNABORTED", "ECONNREFUSED", "ENETRESET", "ETIMEDOUT"}
    THEN NoExc
    ELSE e

\* lines 157-167: the exception that leaves recv(); NoExc when it is handled by
\* data = bytes('')
RecvHandler(e) ==
    IF e.type = "socket.timeout" THEN NoExc
    ELSE IF e.type = "socket.error"
         /\ e.errno \in {"ECONNABORTED", "ECONNREFUSED", "ECONNRESET", "ENETRESET",
                         "ETIMEDOUT"}
    THEN NoExc
    ELSE e

\* a buggy dispatch: raw sockets are read like tcp
RecvReadsRaw(self) ==
    CASE self.proto \in {tcp, ssl, raw_l2, raw_l3} -> "recv"
      [] self.proto = udp /\ self.bind # <<>> -> "recvfrom"
      [] self.proto = udp /\ self.bind = <<>> -> "raise bind"
      [] OTHER -> "raise proto"

\* a buggy dispatch: udp is read whether or not a bind pair is configured
RecvReadsUnbound(self) ==
    CASE self.proto \in {tcp, ssl} -> "recv"
      [] self.proto = udp -> "recvfrom"
      [] self.proto \in {raw_l2, raw_l3} -> "empty"
      [] OTHER -> "raise proto"

\* lines 142-156: what the try block does per protocol
RecvDispatch(self) ==
    CASE self.proto \in {tcp, ssl} -> "recv"
      [] self.proto = udp /\ self.bind # <<>> -> "recvfrom"
      [] self.proto = udp /\ self.bind = <<>> -> "raise bind"
      [] self.proto \in {raw_l2, raw_l3} -> "empty"
      [] OTHER -> "raise proto"

\* the OS hands over at most max_bytes of what is waiting
OsRead(pending, max_bytes) == Slice(pending, max_bytes)

\* recv(max_bytes): the OS calls made, the data returned, the exception raised
recv(self, max_bytes, res, pending) ==
    LET how == RecvDispatch(self)
        got == OsRead(pending, max_bytes)
        raised == IF res = "timeout" THEN SocketTimeout ELSE SocketError(res)
        read == OsCall(how, self._sock.id, IF res = "ok" THEN got ELSE <<>>,
                       IF how = "recvfrom" /\ res = "ok" THEN SENDER ELSE <<>>, res)
    IN  CASE how = "empty" -> [calls |-> <<>>, ret_data |-> <<>>, exc |-> NoExc]
          [] how = "raise bind" ->
               [calls |-> <<>>, ret_data |-> <<>>, exc |-> RecvHandler(UdpRecvNeedsBind)]
          [] how = "raise proto" ->
               [calls |-> <<>>, ret_data |-> <<>>, exc |-> RecvHandler(InvalidProtocol)]
          [] self._sock = NoSock ->
               [calls |-> <<>>, ret_data |-> <<>>, exc |-> RecvHandler(AttributeError)]
          [] res = "ok" -> [calls |-> <<read>>, ret_data |-> got, exc |-> NoExc]
          [] OTHER -> [calls |-> <<read>>, ret_data |-> <<>>, exc |-> RecvHandler(raised)]

Recv ==
    /\ last = NoCall
    /\ conn.exists
    /\ \E max_bytes \in RecvSizes, res \in RecvEnvs(conn._sock.id), pending \in Pending :
         LET r == recv(conn, max_bytes, res, pending) IN
         last' = [NoCall EXCEPT !.op = "recv", !.self = "conn", !.max_bytes = max_bytes,
                                !.calls = r.calls, !.ret_data = r.ret_data,
                                !.exc = r.exc]
    /\ UNCHANGED <<MAX_PAYLOADS, conn, ownUdpMax, created, live, reopened>>

(***************************************************************************)
(* Specification.                                                          *)
(***************************************************************************)
\* the class body, lines 26-30; the import-time "udp" entry is
\* ip_constants.UDP_MAX_LENGTH, a positive value defined outside this file
Init ==
    /\ MAX_PAYLOADS \in { (raw_l2 :> 1514) @@ (raw_l3 :> 1500) @@ (udp :> u) : u \in UdpSizes }
    /\ conn = NoConn
    /\ ownUdpMax = 0
    /\ created = 0
    /\ live = {}
    /\ reopened = FALSE
    /\ last = NoCall

\* The connection is used from one thread, one call at a time: the caller takes
\* the outcome of a call before it makes the next one.
Return ==
    /\ last # NoCall
    /\ last' = NoCall
    /\ UNCHANGED <<MAX_PAYLOADS, conn, ownUdpMax, created, live, reopened>>

Next == Construct \/ ConstructAnother \/ Open \/ Close \/ Send \/ Recv \/ Return

Spec == Init /\ [][Next]_vars

(***************************************************************************)
(* Vocabulary of the properties.                                           *)
(***************************************************************************)
CaseTwin(a, b) == a = b \/ \E i \in 1..26 : {a, b} = {UPPER[i], LOWER[i]}
\* s and t differ at most in letter case
SameUpToCase(s, t) == Len(s) = Len(t) /\ \A i \in 1..Len(s) : CaseTwin(s[i], t[i])
\* the proto argument names one of the kinds ks, in any letter case
Names(s, ks) == \E k \in ks : SameUpToCase(s, k)
\* connect, TLS handshake, socket write, socket read
BlockingCalls == {"connect", "wrap_socket", "send", "sendto", "recv", "recvfrom"}
NBlocking(calls) == Cardinality({i \in 1..Len(calls) : calls[i].fn \in BlockingCalls})
Called(fn) == {i \in 1..Len(last.calls) : last.calls[i].fn = fn}
\* the errors recv() turns into an empty payload
Disconnects == {"ECONNABORTED", "ECONNREFUSED", "ECONNRESET", "ENETRESET", "ETIMEDOUT"}

(***************************************************************************)
(* C1                                                                      *)
(***************************************************************************)
\* C1: constructing tcp, ssl or udp with port None raises the missing-port error
\* (ValueError) and yields no object; constructing raw-l2 or raw-l3 succeeds with
\* or without a port, and a send on a raw connection addresses (interface, 0) or
\* (interface, ethernet_proto, 0, 0, l2_dst): the port is in no position of it.
C1_PortRequirement ==
    /\ (last.op = "__init__" /\ Names(last.proto, {tcp, ssl, udp}) /\ last.port = None)
         => /\ last.exc = PortRequired
            /\ ~last.obj.exists
            /\ (last.self = "conn" => ~conn.exists)
    /\ (last.op = "__init__" /\ Names(last.proto, {raw_l2, raw_l3}))
         => /\ last.exc = NoExc
            /\ last.obj.exists
            /\ (last.self = "conn" => conn = last.obj)
    /\ (last.op = "send" /\ conn.proto \in {raw_l2, raw_l3} /\ last.calls # <<>>)
         => LET addr == last.calls[1].addr IN
            /\ Len(addr) = IF conn.proto = raw_l2 THEN 2 ELSE 5
            /\ addr[1] = conn.host
            /\ \A i \in 2..Len(addr) \ {5} : addr[i] # conn.port
            /\ addr[2] = IF conn.proto = raw_l2 THEN 0 ELSE conn.ethernet_proto

\* a raw layer 2 connection constructed with a port has sent a frame
C1_Witness ==
    /\ last.op = "send" /\ conn.proto = raw_l2 /\ conn.port = 17971
    /\ last.calls # <<>> /\ last.calls[1].addr = <<HOST, 0>>

(***************************************************************************)
(* C2                                                                      *)
(***************************************************************************)
\* C2: a proto string that names none of tcp, ssl, udp, raw-l2, raw-l3 in any
\* letter case makes the constructor raise the invalid-protocol error, with or
\* without a port; proto strings that differ only in letter case give the same
\* exception and the same stored attributes.
C2_InvalidProtocol ==
    last.op = "__init__" =>
        /\ ~Names(last.proto, {tcp, ssl, udp, raw_l2, raw_l3})
             => (last.exc = InvalidProtocol /\ ~last.obj.exists)
        /\ \A q \in ProtoStrings :
             SameUpToCase(q, last.proto)
               => LET r == __init__(HOST, last.port, q, last.bind) IN
                  r.exc = last.exc /\ r.obj = last.obj

\* "TLS" without a port is rejected as an invalid protocol
C2_Witness ==
    /\ last.op = "__init__" /\ last.proto = <<"T","L","S">> /\ last.port = None
    /\ last.exc = InvalidProtocol

(***************************************************************************)
(* C3                                                                      *)
(***************************************************************************)
\* the payload ceiling of a kind: 1514, 1500, and for udp the entry of the table
Ceiling(proto) ==
    CASE proto = raw_l2 -> 1514 [] proto = raw_l3 -> 1500 [] proto = udp -> MAX_PAYLOADS[udp]

\* C3: the bytes send() hands to the OS write are the first min(len(data), ceiling)
\* bytes of data for udp, raw-l2 (1514) and raw-l3 (1500), and the whole payload
\* for tcp and ssl.
C3_Truncation ==
    (last.op = "send" /\ last.calls # <<>>) =>
        LET w == last.calls[1].data
            n == Len(last.data) IN
        /\ Len(last.calls) = 1
        /\ conn.proto \in {udp, raw_l2, raw_l3}
             => /\ Len(w) = Min(n, Ceiling(conn.proto))
                /\ w = SubSeq(last.data, 1, Len(w))
        /\ conn.proto \in {tcp, ssl} => w = last.data

\* a 1501-byte payload left a raw layer 3 connection as 1500 bytes
C3_Witness ==
    /\ last.op = "send" /\ conn.proto = raw_l3 /\ Len(last.data) = 1501
    /\ last.calls # <<>> /\ Len(last.calls[1].data) = 1500

(***************************************************************************)
(* C4                                                                      *)
(***************************************************************************)
\* C4: on tcp, ssl and udp with a bind pair, recv() reads from the handle; when
\* the read times out or fails with connection aborted, refused, reset, network
\* reset or timed out, recv() returns an empty payload and raises nothing; when
\* it fails with any other socket error, recv() raises that same error.
C4_RecvErrors ==
    (/\ last.op = "recv"
     /\ (conn.proto \in {tcp, ssl} \/ (conn.proto = udp /\ conn.bind # <<>>))
     /\ conn._sock # NoSock) =>
        /\ Len(last.calls) = 1
        /\ LET res == last.calls[1].res IN
           /\ res \in Disconnects \cup {"timeout"}
                => (last.exc = NoExc /\ last.ret_data = <<>>)
           /\ res \notin Disconnects \cup {"timeout", "ok"}
                => (last.exc = SocketError(res) /\ last.ret_data = <<>>)

\* a reset connection was read as an empty payload
C4_Witness ==
    /\ last.op = "recv" /\ conn.proto = tcp /\ last.calls # <<>>
    /\ last.calls[1].res = "ECONNRESET" /\ last.exc = NoExc /\ last.ret_data = <<>>

(***************************************************************************)
(* C5                                                                      *)
(***************************************************************************)
\* C5: recv() on a udp connection without a bind pair raises the
\* receive-not-supported error (SullyRuntimeError) and reads nothing; with a bind
\* pair it returns the bytes of the one datagram recvfrom() delivers, without the
\* sender address.
C5_UdpRecv ==
    /\ (last.op = "recv" /\ conn.proto = udp /\ conn.bind = <<>>)
         => (last.exc = UdpRecvNeedsBind /\ last.calls = <<>>)
    /\ (last.op = "recv" /\ conn.proto = udp /\ conn.bind # <<>> /\ last.calls # <<>>)
         => /\ Len(last.calls) = 1
            /\ last.calls[1].fn = "recvfrom"
            /\ last.calls[1].res = "ok"
                 => (last.exc = NoExc /\ last.ret_data = last.calls[1].data)

\* recv() on an open udp connection without a bind pair has raised
C5_Witness ==
    /\ last.op = "recv" /\ conn.proto = udp /\ conn.bind = <<>>
    /\ conn._sock.id \in live /\ last.exc = UdpRecvNeedsBind

(***************************************************************************)
(* C6                                                                      *)
(***************************************************************************)
\* C6: recv() on raw-l2 and raw-l3 returns an empty payload, reads nothing and
\* raises nothing, before open(), while open and after close().
C6_RawRecv ==
    (last.op = "recv" /\ conn.proto \in {raw_l2, raw_l3})
        => (last.ret_data = <<>> /\ last.calls = <<>> /\ last.exc = NoExc)

\* recv() on an open raw layer 2 connection has returned
C6_Witness ==
    /\ last.op = "recv" /\ conn.proto = raw_l2 /\ conn._sock.id \in live
    /\ last.ret_data = <<>>

(***************************************************************************)
(* C7                                                                      *)
(***************************************************************************)
\* C7: open() on tcp and ssl connects to (host, port) after settimeout(); a
\* refused connect raises BoofuzzTargetConnectionFailedError, any other connect
\* error is raised unchanged, and neither is followed by a TLS handshake; on ssl
\* the handshake follows a successful connect and self._sock is then the wrapped
\* handle; on udp, raw-l2 and raw-l3 open() never connects.
C7_OpenConnect ==
    last.op = "open" =>
        LET calls == last.calls
            h == conn._sock.id IN
        /\ (conn.proto \in {tcp, ssl} /\ Called("settimeout") # {})
             => \E t \in Called("settimeout"), c \in Called("connect") :
                  /\ t < c /\ Called("connect") = {c}
                  /\ calls[t].h = h /\ calls[c].h = h
                  /\ calls[c].addr = <<conn.host, conn.port>>
                  /\ calls[c].res = "ECONNREFUSED" => last.exc = ConnectionFailed
                  /\ calls[c].res = "timeout" => last.exc = SocketTimeout
                  /\ calls[c].res \notin {"ok", "ECONNREFUSED", "timeout"}
                       => last.exc = SocketError(calls[c].res)
                  /\ calls[c].res # "ok" => (Called("wrap_socket") = {} /\ ~conn._sock.tls)
                  /\ (calls[c].res = "ok" /\ conn.proto = ssl)
                       => \E w \in Called("wrap_socket") :
                            /\ c < w /\ calls[w].h = h
                            /\ conn._sock.tls = (calls[w].res = "ok")
                  /\ conn.proto = tcp => (Called("wrap_socket") = {} /\ ~conn._sock.tls)
        /\ conn.proto \in {udp, raw_l2, raw_l3}
             => (Called("connect") = {} /\ Called("wrap_socket") = {})

\* an ssl connection is open: connected, then upgraded
C7_Witness ==
    /\ last.op = "open" /\ conn.proto = ssl /\ last.exc = NoExc /\ conn._sock.tls
    /\ Called("connect") # {} /\ Called("wrap_socket") # {}

(***************************************************************************)
(* C8                                                                      *)
(***************************************************************************)
\* C8 as stated: after any sequence of open() and close() calls at most one
\* handle is created and not closed, a successful close() leaves none, and the
\* handle send/recv use is the one the most recent open() created.
C8_AtMostOneHandle ==
    /\ Cardinality(live) <= 1
    /\ (last.op = "close" /\ last.exc = NoExc) => live = {}
    /\ conn._sock.id = created

\* C8 amended: self._sock is always the most recently created handle and a
\* close() that returns has closed it; as long as no open() was called while an
\* earlier handle was still unclosed, at most one handle is created and not
\* closed, and it is the one self._sock refers to.
C8_OneHandleWhenClosedBeforeReopen ==
    /\ conn._sock.id = created
    /\ (last.op = "close" /\ last.exc = NoExc) => conn._sock.id \notin live
    /\ ~reopened => (Cardinality(live) <= 1 /\ live \subseteq {conn._sock.id})

\* open(), close(), open() again: one handle, the second
C8_Witness ==
    /\ last.op = "open" /\ ~reopened /\ created = 2 /\ live = {2} /\ conn._sock.id = 2

(***************************************************************************)
(* C9                                                                      *)
(***************************************************************************)
\* C9 as stated: every call of open(), send(), recv() and close() makes at most
\* one blocking OS call (connect, TLS handshake, socket write, socket read).
C9_AtMostOneBlockingCall ==
    last.op \in {"open", "send", "recv", "close"} => NBlocking(last.calls) <= 1

\* C9 amended: every call of send(), recv() and close(), and of open() on tcp,
\* udp, raw-l2 and raw-l3, makes at most one blocking OS call; open() on ssl
\* makes two when its connect succeeds, the connect and then the TLS handshake,
\* and at most one otherwise.
C9_OneBlockingCallExceptTlsOpen ==
    /\ (last.op \in {"send", "recv", "close"} \/ (last.op = "open" /\ conn.proto # ssl))
         => NBlocking(last.calls) <= 1
    /\ (last.op = "open" /\ conn.proto = ssl)
         => \/ NBlocking(last.calls) <= 1
                /\ \A c \in Called("connect") : last.calls[c].res # "ok"
            \/ /\ NBlocking(last.calls) = 2
               /\ \E c \in Called("connect"), w \in Called("wrap_socket") :
                    c < w /\ last.calls[c].res = "ok"

\* open() on ssl has connected and shaken hands: two blocking calls
C9_Witness ==
    /\ last.op = "open" /\ conn.proto = ssl /\ NBlocking(last.calls) = 2

(***************************************************************************)
(* C10                                                                     *)
(***************************************************************************)
\* C10: the ceiling send() applies on a udp connection is the platform value seen
\* by that connection's own constructor, whatever constructor calls came later;
\* the raw-l2 and raw-l3 ceilings are 1514 and 1500 in every state.
C10_InstanceScopedCeiling ==
    /\ MAX_PAYLOADS[raw_l2] = 1514 /\ MAX_PAYLOADS[raw_l3] = 1500
    /\ (last.op = "send" /\ conn.proto = udp /\ last.calls # <<>>)
         => Len(last.calls[1].data) = Min(Len(last.data), ownUdpMax)

====
